---- MODULE Spec2Model ----
(***************************************************************************)
(* The mintpool node control plane: the Controller (src/controller.rs),    *)
(* the inclusion-claim check (src/chain.rs) and the Zora premint v2 kind   *)
(* (src/premints/zora_premint/v2.rs).  The premint store (crate::storage), *)
(* the rules engine (crate::rules) and the Swarm task (crate::p2p) are     *)
(* modelled from their contracts.                                          *)
(***************************************************************************)
EXTENDS Integers, Sequences, FiniteSets, TLC

VARIABLES
  inclusion_mode,     \* Controller.inclusion_mode
  trusted_peers,      \* Controller.trusted_peers
  rules,              \* Controller.rules: the names of the rules installed
  store,              \* Controller.store: [premints, seen_on_chain]
  swarm_commands,     \* the channel behind Controller.swarm_command_sender
  swarm_open,         \* whether the Swarm still holds that channel's receiver
  rpc_up,             \* whether CHAINS.get_rpc answers
  pending,            \* the message whose handler awaits room in swarm_commands
  handled,            \* what the Controller's handler did in the last step
  external_commands,  \* the channel behind Controller.external_commands
  swarm_events,       \* the channel behind Controller.swarm_event_receiver
  received,           \* the messages run_loop took, in order, with the environment then
  run_state,          \* the task of Controller::run_loop: running, panicked or aborted
  interface_open,     \* whether a caller still holds a ControllerInterface
  services,           \* whether start_services has run
  checker_pc,         \* where the MintChecker's poll_for_new_mints is
  checker_chain_id,   \* MintChecker.chain_id
  highest_block,      \* poll_for_new_mints' highest_block
  filter,             \* poll_for_new_mints' filter
  delivered,          \* the logs the checker's subscriptions yielded, with what it did
  subscriptions,      \* the filters the checker called subscribe_logs with
  call,               \* a call of a function of the premint kind
  result,             \* what the call returned
  swarm_sending       \* the event the Swarm task is sending to the Controller

vars == <<inclusion_mode, trusted_peers, rules, store, swarm_commands, swarm_open,
          rpc_up, pending, handled, external_commands, swarm_events, received,
          run_state, interface_open, services, checker_pc, checker_chain_id,
          highest_block, filter, delivered, subscriptions, call, result, swarm_sending>>

checker == <<checker_pc, checker_chain_id, highest_block, filter, delivered, subscriptions>>
tasks == <<services, interface_open, checker, swarm_sending>>
applied == <<call, result>>

config == <<inclusion_mode, trusted_peers, rules>>
channels == <<external_commands, swarm_events, received>>

-----------------------------------------------------------------------------
(* Bounds *)

\* capacity of the swarm-command channel in the model
SwarmCap == 1
\* capacity of the external-command and of the swarm-event channel in the model
QueueCap == 2
\* the number of messages sent to the Controller in a run of the run-loop specification
MaxSent == 3
\* the number of messages the callers and the Swarm send in a run of the two-task specification
MaxTraffic == 5
\* the number of logs the MintChecker's subscriptions yield in a run
MaxLogs == 3
\* the number of times the MintChecker subscribes in a run
MaxSubscriptions == 2

-----------------------------------------------------------------------------
(* Values *)

PREMINT_FACTORY_ADDR == "0xfactory"
OtherContract == "0xff"
CollectionA == "0xaa"

ZoraChain == 7777777
BaseChain == 8453

\* {:?} of an unsigned integer: its decimal digits
RECURSIVE FormatDebug(_)
FormatDebug(n) ==
  LET d == <<"0", "1", "2", "3", "4", "5", "6", "7", "8", "9">>
  IN IF n < 10 THEN <<d[n + 1]>> ELSE FormatDebug(n \div 10) \o <<d[(n % 10) + 1]>>

\* "{:?}:{:?}:{:?}" of (chain_id, event.contractAddress, event.uid)
event_to_guid(chain_id, event) ==
  FormatDebug(chain_id) \o <<":", event.contractAddress, ":">> \o FormatDebug(event.uid)

ZoraPremintV2(chain_id, collection_address, uid, version, signature) ==
  [chain_id |-> chain_id, collection_address |-> collection_address,
   uid |-> uid, version |-> version, signature |-> signature]

\* mutant: the id tells the versions of a premint apart
metadata_versioned(p) ==
  [id |-> FormatDebug(p.chain_id) \o <<":", p.collection_address, ":">> \o FormatDebug(p.uid)
            \o <<":">> \o FormatDebug(p.version),
   version |-> p.version,
   kind |-> "zora_premint_v2",
   chain_id |-> p.chain_id,
   token_id |-> p.uid]

metadata(p) ==
  [id |-> FormatDebug(p.chain_id) \o <<":", p.collection_address, ":">> \o FormatDebug(p.uid),
   version |-> p.version,
   kind |-> "zora_premint_v2",
   chain_id |-> p.chain_id,
   token_id |-> p.uid]

-----------------------------------------------------------------------------
(* The chain, as the RPC providers of CHAINS report it *)

\* Option<T>: None is the empty sequence, Some(x) the sequence of x
None == <<>>
Some(x) == <<x>>
ZeroHash == "0x0"

\* Option<B256>::unwrap_or_default and Option<u64>::unwrap_or_default
UnwrapHash(h) == IF h = None THEN ZeroHash ELSE h[1]
UnwrapIndex(i) == IF i = None THEN 0 ELSE i[1]

Log(address, topic0, contractAddress, uid, transaction_hash, log_index, block_number) ==
  [address |-> address, topic0 |-> topic0,
   data |-> [contractAddress |-> contractAddress, uid |-> uid],
   transaction_hash |-> transaction_hash, log_index |-> log_index,
   block_number |-> block_number]

\* PremintedV2::decode_raw_log(topics, data, validate = true): the event, when the
\* first topic is the event's signature
decode_raw_log(log) ==
  IF log.topic0 = "PremintedV2"
  THEN [ok |-> TRUE, event |-> log.data]
  ELSE [ok |-> FALSE]

\* Transaction 0xt1 is the first of block 10: its logs' block-wide indices are
\* their positions in the receipt.  Transaction 0xt2 follows five logs of other
\* transactions in block 11.  Both executed the premint (CollectionA, uid 1).
LogTransfer == Log(OtherContract, "Transfer", CollectionA, 1, Some("0xt1"), Some(0), Some(10))
LogMint1 == Log(PREMINT_FACTORY_ADDR, "PremintedV2", CollectionA, 1, Some("0xt1"), Some(1), Some(10))
LogMint2 == Log(PREMINT_FACTORY_ADDR, "PremintedV2", CollectionA, 1, Some("0xt2"), Some(5), Some(11))
\* Transaction 0xt3 had another contract emit an event of the same shape.
LogSpoof == Log(OtherContract, "PremintedV2", CollectionA, 1, Some("0xt3"), Some(0), Some(12))

Receipt(transaction_hash, logs) == [transaction_hash |-> transaction_hash, logs |-> logs]

Receipts(chain_id) ==
  IF chain_id = ZoraChain
  THEN {Receipt("0xt1", <<LogTransfer, LogMint1>>), Receipt("0xt2", <<LogMint2>>),
        Receipt("0xt3", <<LogSpoof>>)}
  ELSE {}

KnownChains == {ZoraChain, BaseChain}

\* CHAINS.get_rpc(chain_id)
get_rpc(chain_id, rpc) == rpc /\ chain_id \in KnownChains

\* provider.get_transaction_receipt(tx_hash): Ok(Some(receipt)) or Ok(None)
get_transaction_receipt(chain_id, tx_hash) ==
  LET found == {r \in Receipts(chain_id) : r.transaction_hash = tx_hash}
  IN IF found = {} THEN None ELSE Some(CHOOSE r \in found : TRUE)

-----------------------------------------------------------------------------
(* ZoraPremintV2 as a Premint *)

InclusionClaim(premint_id, chain_id, tx_hash, log_index, kind) ==
  [premint_id |-> premint_id, chain_id |-> chain_id, tx_hash |-> tx_hash,
   log_index |-> log_index, kind |-> kind]

check_filter(chain_id) ==
  IF chain_id \notin {ZoraChain, BaseChain}
  THEN None
  ELSE Some([address |-> PREMINT_FACTORY_ADDR, event |-> "PremintedV2", from_block |-> None])

map_claim(chain_id, log) ==
  LET d == decode_raw_log(log)
  IN IF ~d.ok
     THEN [ok |-> FALSE]
     ELSE [ok |-> TRUE,
           claim |-> InclusionClaim(event_to_guid(chain_id, d.event), chain_id,
                                    UnwrapHash(log.transaction_hash),
                                    UnwrapIndex(log.log_index), "zora_premint_v2")]

\* mutant: the claim's kind is not looked at
verify_claim_any_kind(p, chain_id, tx, log, claim) ==
  LET d == decode_raw_log(log)
  IN IF d.ok
     THEN /\ log.address = PREMINT_FACTORY_ADDR
          /\ UnwrapHash(log.transaction_hash) = tx.transaction_hash
          /\ claim.tx_hash = tx.transaction_hash
          /\ claim.log_index = UnwrapIndex(log.log_index)
          /\ claim.premint_id = event_to_guid(chain_id, d.event)
          /\ claim.chain_id = chain_id
          /\ p.collection_address = d.event.contractAddress
          /\ p.uid = d.event.uid
     ELSE FALSE

verify_claim(p, chain_id, tx, log, claim) ==
  LET d == decode_raw_log(log)
  IN IF d.ok
     THEN /\ log.address = PREMINT_FACTORY_ADDR
          /\ UnwrapHash(log.transaction_hash) = tx.transaction_hash
          /\ claim.tx_hash = tx.transaction_hash
          /\ claim.log_index = UnwrapIndex(log.log_index)
          /\ claim.premint_id = event_to_guid(chain_id, d.event)
          /\ claim.kind = "zora_premint_v2"
          /\ claim.chain_id = chain_id
          /\ p.collection_address = d.event.contractAddress
          /\ p.uid = d.event.uid
     ELSE FALSE

\* mutant: an index past the receipt's logs selects the last log
inclusion_claim_correct_clamped(p, claim, rpc) ==
  IF ~get_rpc(claim.chain_id, rpc)
  THEN "Err"
  ELSE LET receipt == get_transaction_receipt(claim.chain_id, claim.tx_hash)
       IN IF receipt = None
          THEN "Err"
          ELSE LET tx == receipt[1]
                   at == IF claim.log_index + 1 > Len(tx.logs)
                         THEN Len(tx.logs)
                         ELSE claim.log_index + 1
               IN IF verify_claim(p, claim.chain_id, tx, tx.logs[at], claim)
                  THEN "OkTrue"
                  ELSE "OkFalse"

\* Ok(true), Ok(false) or Err
inclusion_claim_correct(p, claim, rpc) ==
  IF ~get_rpc(claim.chain_id, rpc)
  THEN "Err"
  ELSE LET receipt == get_transaction_receipt(claim.chain_id, claim.tx_hash)
       IN IF receipt = None
          THEN "Err"
          ELSE LET tx == receipt[1]
               IN IF claim.log_index + 1 > Len(tx.logs)
                  THEN "Err"
                  ELSE IF verify_claim(p, claim.chain_id, tx,
                                       tx.logs[claim.log_index + 1], claim)
                       THEN "OkTrue"
                       ELSE "OkFalse"

-----------------------------------------------------------------------------
(* PremintStorage: a mapping (kind, id) -> premint and the set of claims seen *)

EmptyStore == [premints |-> {}, seen_on_chain |-> {}]

SameRow(p, q) == metadata(p).kind = metadata(q).kind /\ metadata(p).id = metadata(q).id

\* store(premint): an error unless the version advances the row of the same (kind, id)
PremintStorage_store(st, p) ==
  LET existing == {q \in st.premints : SameRow(p, q)}
  IN IF \E q \in existing : metadata(q).version >= metadata(p).version
     THEN [ok |-> FALSE, store |-> st]
     ELSE [ok |-> TRUE, store |-> [st EXCEPT !.premints = (@ \ existing) \cup {p}]]

get_for_id_and_kind(st, id, kind) ==
  LET rows == {q \in st.premints : metadata(q).id = id /\ metadata(q).kind = kind}
  IN IF rows = {} THEN None ELSE Some(CHOOSE q \in rows : TRUE)

mark_seen_on_chain(st, claim) == [st EXCEPT !.seen_on_chain = @ \cup {claim}]

IsSeen(st, p) ==
  \E c \in st.seen_on_chain : c.premint_id = metadata(p).id /\ c.kind = metadata(p).kind

list_all(st) == {p \in st.premints : ~IsSeen(st, p)}

-----------------------------------------------------------------------------
(* RulesEngine: every rule is evaluated; the premint is accepted when all accept *)

SupportedChains == {ZoraChain, BaseChain}

DefaultRules ==
  {"signature_valid", "version_is_higher", "signer_matches", "chain_supported",
   "not_seen_on_chain"}

RuleOutcome(rule, p, st) ==
  LET pass ==
        CASE rule = "signature_valid" -> p.signature = "valid"
          [] rule = "version_is_higher" ->
               \A q \in st.premints : SameRow(p, q) => metadata(p).version > metadata(q).version
          [] rule = "signer_matches" -> TRUE
          [] rule = "chain_supported" -> p.chain_id \in SupportedChains
          [] rule = "not_seen_on_chain" -> ~IsSeen(st, p)
  IN IF pass THEN "Accept" ELSE "Reject"

\* rules.evaluate(premint, store): Err when a rule cannot reach the chain
evaluate(installed, p, st, rpc) ==
  IF "signer_matches" \in installed /\ ~rpc
  THEN [ok |-> FALSE]
  ELSE [ok |-> TRUE, results |-> [r \in installed |-> RuleOutcome(r, p, st)]]

is_accept(results) == \A r \in DOMAIN results : results[r] = "Accept"

-----------------------------------------------------------------------------
(* Messages *)

NoMsg == [type |-> "none"]

SwarmBroadcast(message) == [type |-> "Broadcast", message |-> message]
SendOnchainMintFound(claim) == [type |-> "SendOnchainMintFound", claim |-> claim]

CommandTypes ==
  {"ConnectToPeer", "ReturnNetworkState", "AnnounceSelf", "Broadcast", "ReturnNodeInfo",
   "Query", "ResolveOnchainMint"}

EventTypes == {"NetworkState", "PremintReceived", "MintSeenOnchain"}

\* What a handler did: the store it leaves, the SwarmCommand it sends (at most one),
\* the values it sends on the command's one-shot channel, the number of its calls of
\* store.mark_seen_on_chain, and the Result it returns (an Err is logged).
Effect(st, send, replies, marks, ret) ==
  [store |-> st, send |-> send, replies |-> replies, marks |-> marks, ret |-> ret]

ReplyOk == [ok |-> TRUE, why |-> "accepted"]
ReplyErr(why) == [ok |-> FALSE, why |-> why]

\* The handler's context: the Controller's configuration, and what its awaits meet
Context(mode, trusted, installed, rpc, open) ==
  [mode |-> mode, trusted |-> trusted, rules |-> installed, rpc |-> rpc, open |-> open]

-----------------------------------------------------------------------------
(* Controller *)

\* mutant: the premint is stored before the rules are evaluated
validate_and_insert_store_first(st, premint, ctx) ==
  LET r == PremintStorage_store(st, premint)
      evaluation == evaluate(ctx.rules, premint, st, ctx.rpc)
  IN IF ~evaluation.ok
     THEN [ok |-> FALSE, why |-> "rules_error", store |-> r.store]
     ELSE IF is_accept(evaluation.results)
          THEN IF r.ok
               THEN [ok |-> TRUE, why |-> "accepted", store |-> r.store]
               ELSE [ok |-> FALSE, why |-> "store_failed", store |-> r.store]
          ELSE [ok |-> FALSE, why |-> "rejected", store |-> r.store]

validate_and_insert(st, premint, ctx) ==
  LET evaluation == evaluate(ctx.rules, premint, st, ctx.rpc)
  IN IF ~evaluation.ok
     THEN [ok |-> FALSE, why |-> "rules_error", store |-> st]
     ELSE IF is_accept(evaluation.results)
          THEN LET r == PremintStorage_store(st, premint)
               IN IF r.ok
                  THEN [ok |-> TRUE, why |-> "accepted", store |-> r.store]
                  ELSE [ok |-> FALSE, why |-> "store_failed", store |-> r.store]
          ELSE [ok |-> FALSE, why |-> "rejected", store |-> st]

\* channel.send(x).map_err(..)?: an Err when the receiver was dropped
OneshotSend(cmd) == IF cmd.rx = "open" THEN "Ok" ELSE "Err"

\* mutant: the Controller answers the caller itself and sends the Swarm nothing
Forward_answering(st, c, ctx) == Effect(st, <<>>, <<ReplyOk>>, 0, "Ok")

\* self.swarm_command_sender.send(c).await?
Forward(st, c, ctx) == Effect(st, <<c>>, <<>>, 0, IF ctx.open THEN "Ok" ELSE "Err")

\* mutant: a failed swarm send is logged and the caller still told Ok
command_Broadcast_ok_on_send_failure(st, cmd, ctx) ==
  LET v == validate_and_insert(st, cmd.message, ctx)
  IN IF v.ok
     THEN Effect(v.store, <<SwarmBroadcast(cmd.message)>>, <<ReplyOk>>, 0, OneshotSend(cmd))
     ELSE Effect(v.store, <<>>, <<ReplyErr(v.why)>>, 0, OneshotSend(cmd))

command_Broadcast(st, cmd, ctx) ==
  LET v == validate_and_insert(st, cmd.message, ctx)
  IN IF v.ok
     THEN IF ctx.open
          THEN Effect(v.store, <<SwarmBroadcast(cmd.message)>>, <<ReplyOk>>, 0,
                      OneshotSend(cmd))
          ELSE Effect(v.store, <<SwarmBroadcast(cmd.message)>>, <<ReplyErr("swarm")>>, 0,
                      OneshotSend(cmd))
     ELSE Effect(v.store, <<>>, <<ReplyErr(v.why)>>, 0, OneshotSend(cmd))

command_Query(st, cmd, ctx) ==
  IF cmd.query = "ListAll"
  THEN Effect(st, <<>>, <<[ok |-> TRUE, why |-> "list_all", value |-> list_all(st)]>>, 0, "Ok")
  ELSE Effect(st, <<>>, <<[ok |-> TRUE, why |-> "db"]>>, 0, "Ok")

\* mutant: the found mint is announced to the swarm unless the mode is Trust
command_ResolveOnchainMint_announce_in_verify(st, cmd, ctx) ==
  Effect(mark_seen_on_chain(st, cmd.claim),
         IF ctx.mode # "Trust" THEN <<SendOnchainMintFound(cmd.claim)>> ELSE <<>>,
         <<>>, 1, "Ok")

\* mutant: the store keeps the latest claim only
command_ResolveOnchainMint_latest_only(st, cmd, ctx) ==
  Effect([st EXCEPT !.seen_on_chain = {cmd.claim}],
         IF ctx.mode = "Check" THEN <<SendOnchainMintFound(cmd.claim)>> ELSE <<>>,
         <<>>, 1, "Ok")

command_ResolveOnchainMint(st, cmd, ctx) ==
  Effect(mark_seen_on_chain(st, cmd.claim),
         IF ctx.mode = "Check" THEN <<SendOnchainMintFound(cmd.claim)>> ELSE <<>>,
         <<>>, 1, "Ok")

handle_command(st, cmd, ctx) ==
  CASE cmd.type = "ConnectToPeer" -> Forward(st, [type |-> "ConnectToPeer"], ctx)
    [] cmd.type = "ReturnNetworkState" ->
         Forward(st, [type |-> "ReturnNetworkState", channel |-> cmd.channel], ctx)
    [] cmd.type = "AnnounceSelf" -> Forward(st, [type |-> "AnnounceSelf"], ctx)
    [] cmd.type = "Broadcast" -> command_Broadcast(st, cmd, ctx)
    [] cmd.type = "ReturnNodeInfo" ->
         Forward(st, [type |-> "ReturnNodeInfo", channel |-> cmd.channel], ctx)
    [] cmd.type = "Query" -> command_Query(st, cmd, ctx)
    [] cmd.type = "ResolveOnchainMint" -> command_ResolveOnchainMint(st, cmd, ctx)

\* mutant: a trusted peer's claim is marked without the check, in every mode
handle_event_onchain_claim_trusted_first(st, peer_claim, ctx) ==
  IF peer_claim.from_peer_id \in ctx.trusted
  THEN Effect(mark_seen_on_chain(st, peer_claim.claim), <<>>, <<>>, 1, "Ok")
  ELSE IF ctx.mode \in {"Check", "Verify"}
       THEN LET claim == peer_claim.claim
                premint == get_for_id_and_kind(st, claim.premint_id, claim.kind)
            IN IF premint = None
               THEN Effect(st, <<>>, <<>>, 0, "Err")
               ELSE IF inclusion_claim_correct(premint[1], claim, ctx.rpc) = "OkTrue"
                    THEN Effect(mark_seen_on_chain(st, claim), <<>>, <<>>, 1, "Ok")
                    ELSE Effect(st, <<>>, <<>>, 0, "Ok")
       ELSE Effect(st, <<>>, <<>>, 0, "Ok")

\* mutant: Check and Verify mark a claim of a transaction the chain holds even
\* when the premint is not in the store
handle_event_onchain_claim_premint_optional(st, peer_claim, ctx) ==
  IF ctx.mode \in {"Check", "Verify"}
  THEN LET claim == peer_claim.claim
           premint == get_for_id_and_kind(st, claim.premint_id, claim.kind)
       IN IF premint = None
          THEN IF get_transaction_receipt(claim.chain_id, claim.tx_hash) # None
               THEN Effect(mark_seen_on_chain(st, claim), <<>>, <<>>, 1, "Ok")
               ELSE Effect(st, <<>>, <<>>, 0, "Err")
          ELSE IF inclusion_claim_correct(premint[1], claim, ctx.rpc) = "OkTrue"
               THEN Effect(mark_seen_on_chain(st, claim), <<>>, <<>>, 1, "Ok")
               ELSE Effect(st, <<>>, <<>>, 0, "Ok")
  ELSE IF peer_claim.from_peer_id \in ctx.trusted
       THEN Effect(mark_seen_on_chain(st, peer_claim.claim), <<>>, <<>>, 1, "Ok")
       ELSE Effect(st, <<>>, <<>>, 0, "Ok")

\* mutant: Trust mode marks the claim of any peer
handle_event_onchain_claim_any_peer(st, peer_claim, ctx) ==
  IF ctx.mode \in {"Check", "Verify"}
  THEN LET claim == peer_claim.claim
           premint == get_for_id_and_kind(st, claim.premint_id, claim.kind)
       IN IF premint = None
          THEN Effect(st, <<>>, <<>>, 0, "Err")
          ELSE IF inclusion_claim_correct(premint[1], claim, ctx.rpc) = "OkTrue"
               THEN Effect(mark_seen_on_chain(st, claim), <<>>, <<>>, 1, "Ok")
               ELSE Effect(st, <<>>, <<>>, 0, "Ok")
  ELSE Effect(mark_seen_on_chain(st, peer_claim.claim), <<>>, <<>>, 1, "Ok")

handle_event_onchain_claim(st, peer_claim, ctx) ==
  IF ctx.mode \in {"Check", "Verify"}
  THEN LET claim == peer_claim.claim
           premint == get_for_id_and_kind(st, claim.premint_id, claim.kind)
       IN IF premint = None
          THEN Effect(st, <<>>, <<>>, 0, "Err")
          ELSE IF inclusion_claim_correct(premint[1], claim, ctx.rpc) = "OkTrue"
               THEN Effect(mark_seen_on_chain(st, claim), <<>>, <<>>, 1, "Ok")
               ELSE Effect(st, <<>>, <<>>, 0, "Ok")
  ELSE IF peer_claim.from_peer_id \in ctx.trusted
       THEN Effect(mark_seen_on_chain(st, peer_claim.claim), <<>>, <<>>, 1, "Ok")
       ELSE Effect(st, <<>>, <<>>, 0, "Ok")

\* mutant: a premint received and accepted is broadcast again
event_PremintReceived_rebroadcast(st, ev, ctx) ==
  LET v == validate_and_insert(st, ev.premint, ctx)
  IN Effect(v.store, IF v.ok THEN <<SwarmBroadcast(ev.premint)>> ELSE <<>>, <<>>, 0,
            IF v.ok THEN "Ok" ELSE "Err")

event_PremintReceived(st, ev, ctx) ==
  LET v == validate_and_insert(st, ev.premint, ctx)
  IN Effect(v.store, <<>>, <<>>, 0, IF v.ok THEN "Ok" ELSE "Err")

handle_event(st, ev, ctx) ==
  CASE ev.type = "NetworkState" -> Effect(st, <<>>, <<>>, 0, "Ok")
    [] ev.type = "PremintReceived" -> event_PremintReceived(st, ev, ctx)
    [] ev.type = "MintSeenOnchain" -> handle_event_onchain_claim(st, ev, ctx)

\* mutant: run_loop ends when a handler returns an Err
run_loop_after_fatal(ret) == IF ret = "Err" THEN "panicked" ELSE "running"

\* run_loop after a handler returned: an Err is logged, and the loop goes on
run_loop_after(ret) == "running"

\* no call of a premint-kind function is under way
NoCall == [fn |-> "none"]

\* one arm of run_loop's select!, for the message it received
handle(st, m, ctx) ==
  IF m.type \in CommandTypes THEN handle_command(st, m, ctx) ELSE handle_event(st, m, ctx)

-----------------------------------------------------------------------------
(* The messages the environment sends *)

P1v1 == ZoraPremintV2(ZoraChain, CollectionA, 1, 1, "valid")
P1v2 == ZoraPremintV2(ZoraChain, CollectionA, 1, 2, "valid")
PForged == ZoraPremintV2(ZoraChain, CollectionA, 1, 3, "forged")
P2v1 == ZoraPremintV2(ZoraChain, CollectionA, 2, 1, "valid")

Premints == {P1v1, P1v2, PForged, P2v1}

\* the claims a MintChecker makes of the chain's factory logs
ClaimMint1 == map_claim(ZoraChain, LogMint1).claim
ClaimMint2 == map_claim(ZoraChain, LogMint2).claim
\* claims only a peer makes: of a transaction the chain does not hold, of a log
\* that is not the factory's
ClaimNoTx == [ClaimMint1 EXCEPT !.tx_hash = "0xt9"]
ClaimSpoof == map_claim(ZoraChain, LogSpoof).claim

CheckerClaims == {ClaimMint1, ClaimMint2}
PeerClaims == {ClaimMint1, ClaimMint2, ClaimNoTx, ClaimSpoof}

Peers == {"peerT", "peerU"}

StoreCommands ==
  {[type |-> "Broadcast", message |-> p, rx |-> rx] : p \in Premints, rx \in {"open", "dropped"}}
  \cup {[type |-> "ResolveOnchainMint", claim |-> c] : c \in CheckerClaims}

Commands ==
  StoreCommands
  \cup {[type |-> t] : t \in {"ConnectToPeer", "AnnounceSelf"}}
  \cup {[type |-> "ReturnNetworkState", channel |-> "caller1"],
        [type |-> "ReturnNodeInfo", channel |-> "caller2"]}
  \cup {[type |-> "Query", query |-> q, rx |-> rx] : q \in {"ListAll", "Direct"}, rx \in {"open", "dropped"}}

Events ==
  {[type |-> "NetworkState"]}
  \cup {[type |-> "PremintReceived", premint |-> p] : p \in Premints}
  \cup {[type |-> "MintSeenOnchain", from_peer_id |-> f, claim |-> c] : f \in Peers, c \in PeerClaims}

-----------------------------------------------------------------------------
(* The Controller task, its swarm-command channel and the environment *)

Ctx == Context(inclusion_mode, trusted_peers, rules, rpc_up, swarm_open)

\* handled: the message, the store before its handler ran, the SwarmCommand the
\* handler sent and what of it the channel took, the replies, the calls of
\* mark_seen_on_chain, the handler's result
Idle ==
  [msg |-> NoMsg, before |-> EmptyStore, send |-> <<>>, emitted |-> <<>>, replies |-> <<>>,
   marks |-> 0, ret |-> "Ok"]

\* Controller::new, over channels just made
InitController ==
  /\ inclusion_mode \in {"Check", "Verify", "Trust"}
  /\ trusted_peers \in {{}, {"peerT"}}
  /\ rules \in {DefaultRules, DefaultRules \ {"version_is_higher"}}
  /\ store = EmptyStore
  /\ swarm_commands = <<>>
  /\ swarm_open = TRUE
  /\ rpc_up = TRUE
  /\ pending = NoMsg
  /\ handled = Idle
  /\ external_commands = <<>>
  /\ swarm_events = <<>>
  /\ received = <<>>
  /\ run_state = "running"
  /\ interface_open = TRUE
  /\ swarm_sending = NoMsg

\* the services are up, no MintChecker runs and no call is under way
Init ==
  /\ InitController
  /\ services = "up"
  /\ checker_pc = "unspawned"
  /\ checker_chain_id = ZoraChain
  /\ highest_block = None
  /\ filter = None
  /\ delivered = <<>>
  /\ subscriptions = <<>>
  /\ call = NoCall
  /\ result = None

\* the handler's send finds the swarm-command channel open and full: it waits
WouldBlock(m) ==
  /\ handle(store, m, Ctx).send # <<>>
  /\ swarm_open
  /\ Len(swarm_commands) >= SwarmCap

\* the handler of m runs to its end
Complete(m) ==
  LET e == handle(store, m, Ctx)
      emitted == IF swarm_open THEN e.send ELSE <<>>
  IN /\ store' = e.store
     /\ swarm_commands' = swarm_commands \o emitted
     /\ handled' = [msg |-> m, before |-> store, send |-> e.send, emitted |-> emitted,
                    replies |-> e.replies, marks |-> e.marks, ret |-> e.ret]

\* run_loop is at its select!
AtSelect == run_state = "running" /\ pending = NoMsg /\ handled = Idle

\* select! yields a command of a caller or of a MintChecker
RecvCommand ==
  /\ AtSelect
  /\ \E cmd \in Commands : pending' = cmd
  /\ UNCHANGED <<config, tasks, applied, run_state, store, swarm_commands, swarm_open, rpc_up, handled, channels>>

\* select! yields an event of the Swarm
RecvEvent ==
  /\ AtSelect
  /\ \E ev \in Events : pending' = ev
  /\ UNCHANGED <<config, tasks, applied, run_state, store, swarm_commands, swarm_open, rpc_up, handled, channels>>

\* handle_command / handle_event on the message taken; a send to a full
\* swarm-command channel goes through once there is room or the channel closed
HandleStep ==
  /\ pending # NoMsg
  /\ ~WouldBlock(pending)
  /\ Complete(pending)
  /\ pending' = NoMsg
  /\ run_state' = run_loop_after(handle(store, pending, Ctx).ret)
  /\ UNCHANGED <<config, tasks, applied, swarm_open, rpc_up>>

Handle == HandleStep /\ UNCHANGED channels

\* the loop goes round to its select!
Loop ==
  /\ handled # Idle
  /\ handled' = Idle
  /\ UNCHANGED <<config, tasks, applied, run_state, store, swarm_commands, swarm_open, rpc_up, pending, channels>>

\* the Swarm takes the next command
SwarmRecv ==
  /\ swarm_open
  /\ swarm_commands # <<>>
  /\ swarm_commands' = Tail(swarm_commands)
  /\ handled' = Idle
  /\ UNCHANGED <<config, tasks, applied, run_state, store, swarm_open, rpc_up, pending, channels>>

\* the Swarm task ends and drops its receiver
SwarmStop ==
  /\ swarm_open
  /\ swarm_open' = FALSE
  /\ swarm_commands' = <<>>
  /\ handled' = Idle
  /\ UNCHANGED <<config, tasks, applied, run_state, store, rpc_up, pending, channels>>

\* the RPC providers become unreachable, or reachable again
RpcChange ==
  /\ rpc_up' = ~rpc_up
  /\ handled' = Idle
  /\ UNCHANGED <<config, tasks, applied, run_state, store, swarm_commands, swarm_open, pending, channels>>

Next ==
  \/ RecvCommand
  \/ RecvEvent
  \/ Handle
  \/ Loop
  \/ SwarmRecv
  \/ SwarmStop
  \/ RpcChange

Spec == Init /\ [][Next]_vars

-----------------------------------------------------------------------------
(* run_loop over its two channels: callers and MintCheckers send commands through
   ControllerInterface, the Swarm sends events, and the loop takes one message at a
   time.  received holds the messages taken, in order; an entry is stamped, when its
   handler has run, with what the handler's awaits met. *)

LoopCommands ==
  {[type |-> "Broadcast", message |-> p, rx |-> "open"] : p \in {P1v1, P1v2}}
  \cup {[type |-> "Broadcast", message |-> P1v1, rx |-> "dropped"],
        [type |-> "Query", query |-> "ListAll", rx |-> "dropped"]}

LoopEvents ==
  {[type |-> "PremintReceived", premint |-> P1v2],
   [type |-> "MintSeenOnchain", from_peer_id |-> "peerU", claim |-> ClaimMint1]}

Sent == Len(received) + Len(external_commands) + Len(swarm_events)

Taken(m) == [msg |-> m, done |-> FALSE, rpc |-> TRUE, open |-> TRUE]

\* ControllerInterface::send_command: self.command_sender.send(command).await
send_command ==
  /\ Sent < MaxSent
  /\ interface_open
  /\ run_state = "running"
  /\ Len(external_commands) < QueueCap
  /\ \E cmd \in LoopCommands : external_commands' = Append(external_commands, cmd)
  /\ UNCHANGED <<config, tasks, applied, run_state, store, swarm_commands, swarm_open, rpc_up, pending, handled,
                 swarm_events, received>>

\* the Swarm sends an event
SwarmEmit ==
  /\ Sent < MaxSent
  /\ swarm_open
  /\ Len(swarm_events) < QueueCap
  /\ \E ev \in LoopEvents : swarm_events' = Append(swarm_events, ev)
  /\ UNCHANGED <<config, tasks, applied, run_state, store, swarm_commands, swarm_open, rpc_up, pending, handled,
                 external_commands, received>>

\* mutant: the loop takes the next command while a handler still waits
run_loop_command_overlapping ==
  /\ external_commands # <<>>
  /\ pending' = Head(external_commands)
  /\ external_commands' = Tail(external_commands)
  /\ received' = Append(received, Taken(Head(external_commands)))
  /\ handled' = Idle
  /\ UNCHANGED <<config, tasks, applied, run_state, store, swarm_commands, swarm_open, rpc_up, swarm_events>>

\* Some(command) = self.external_commands.recv()
run_loop_command ==
  /\ AtSelect
  /\ external_commands # <<>>
  /\ pending' = Head(external_commands)
  /\ external_commands' = Tail(external_commands)
  /\ received' = Append(received, Taken(Head(external_commands)))
  /\ UNCHANGED <<config, tasks, applied, run_state, store, swarm_commands, swarm_open, rpc_up, handled, swarm_events>>

\* Some(event) = self.swarm_event_receiver.recv()
run_loop_event ==
  /\ AtSelect
  /\ swarm_events # <<>>
  /\ pending' = Head(swarm_events)
  /\ swarm_events' = Tail(swarm_events)
  /\ received' = Append(received, Taken(Head(swarm_events)))
  /\ UNCHANGED <<config, tasks, applied, run_state, store, swarm_commands, swarm_open, rpc_up, handled,
                 external_commands>>

\* the handler of the message taken runs to its end
run_loop_handle ==
  /\ HandleStep
  /\ received' = [received EXCEPT ![Len(received)] =
                    [msg |-> pending, done |-> TRUE, rpc |-> rpc_up, open |-> swarm_open]]
  /\ UNCHANGED <<external_commands, swarm_events>>

\* the last ControllerInterface is dropped: the external-command channel closes
InterfaceDrop ==
  /\ interface_open
  /\ interface_open' = FALSE
  /\ UNCHANGED <<config, swarm_sending, services, checker, applied, run_state, store, swarm_commands,
                 swarm_open, rpc_up, pending, handled, channels>>

\* both recv() of the select! yield None
AllDisabled ==
  /\ ~interface_open /\ external_commands = <<>>
  /\ ~swarm_open /\ swarm_events = <<>>

\* mutant: select! has an else branch that breaks out of the loop
select_all_disabled_else == "returned"

\* select! with every branch disabled and no else branch
select_all_disabled == "panicked"

\* run_loop's select! when both channels are closed and drained
run_loop_closed ==
  /\ AtSelect
  /\ AllDisabled
  /\ run_state' = select_all_disabled
  /\ UNCHANGED <<config, tasks, applied, store, swarm_commands, swarm_open, rpc_up,
                 pending, handled, channels>>

InitLoop == Init /\ inclusion_mode = "Verify" /\ trusted_peers = {}

NextLoop ==
  \/ send_command
  \/ SwarmEmit
  \/ run_loop_command
  \/ run_loop_event
  \/ run_loop_handle
  \/ run_loop_closed
  \/ InterfaceDrop
  \/ Loop
  \/ SwarmRecv
  \/ SwarmStop
  \/ RpcChange

SpecLoop == InitLoop /\ [][NextLoop]_vars

\* the store after handling the entries of a log one after the other
RECURSIVE Replay(_, _)
Replay(st, log) ==
  IF log = <<>>
  THEN st
  ELSE Replay(handle(st, log[1].msg,
                     Context(inclusion_mode, trusted_peers, rules, log[1].rpc, log[1].open)).store,
              Tail(log))

-----------------------------------------------------------------------------
(* start_services and a MintChecker: poll_for_new_mints subscribes to the factory's
   logs of one chain and sends the Controller a ResolveOnchainMint for each *)

\* a chain for which the premint kind has no filter
UnsupportedChain == 1

CheckerChains == {ZoraChain, UnsupportedChain}

\* a log that is not in a block yet
LogPending == Log(PREMINT_FACTORY_ADDR, "PremintedV2", CollectionA, 2, None, None, None)

\* what a subscription may yield, in any order
StreamLogs == {LogTransfer, LogMint1, LogMint2, LogPending}

\* the chains for which start_services spawns a MintChecker: in Check mode it
\* computes the rpc_url of every supported chain, and spawns nothing
start_services_checkers(mode) == {}

start_services ==
  /\ services = "down"
  /\ services' = "up"
  /\ checker_pc' = IF checker_chain_id \in start_services_checkers(inclusion_mode)
                    THEN "start"
                    ELSE "unspawned"
  /\ UNCHANGED <<config, swarm_sending, interface_open, checker_chain_id, highest_block, filter, delivered,
                 subscriptions, applied, run_state, store, swarm_commands, swarm_open,
                 rpc_up, pending, handled, channels>>

\* a holder of the ControllerInterface makes a MintChecker and runs poll_for_new_mints
MintChecker_new ==
  /\ services = "up"
  /\ checker_pc = "unspawned"
  /\ checker_pc' = "start"
  /\ UNCHANGED <<config, swarm_sending, services, interface_open, checker_chain_id, highest_block, filter,
                 delivered, subscriptions, applied, run_state, store, swarm_commands,
                 swarm_open, rpc_up, pending, handled, channels>>

\* let mut filter = T::check_filter(self.chain_id), or return Err
poll_check_filter ==
  /\ checker_pc = "start"
  /\ LET f == check_filter(checker_chain_id)
     IN IF f = None
        THEN checker_pc' = "returned" /\ filter' = filter
        ELSE checker_pc' = "connect" /\ filter' = f[1]
  /\ UNCHANGED <<config, swarm_sending, services, interface_open, checker_chain_id, highest_block,
                 delivered, subscriptions, applied, run_state, store, swarm_commands,
                 swarm_open, rpc_up, pending, handled, channels>>

\* mutant: an Err of make_provider ends poll_for_new_mints
poll_make_provider_fatal ==
  /\ checker_pc = "connect"
  /\ checker_pc' = IF get_rpc(checker_chain_id, rpc_up) THEN "subscribe" ELSE "returned"
  /\ UNCHANGED <<config, swarm_sending, services, interface_open, checker_chain_id, highest_block, filter,
                 delivered, subscriptions, applied, run_state, store, swarm_commands,
                 swarm_open, rpc_up, pending, handled, channels>>

\* self.make_provider().await: on Err, sleep and try again
poll_make_provider ==
  /\ checker_pc = "connect"
  /\ checker_pc' = IF get_rpc(checker_chain_id, rpc_up) THEN "subscribe" ELSE "connect"
  /\ UNCHANGED <<config, swarm_sending, services, interface_open, checker_chain_id, highest_block, filter,
                 delivered, subscriptions, applied, run_state, store, swarm_commands,
                 swarm_open, rpc_up, pending, handled, channels>>

\* filter = filter.from_block(highest_block) when there is one
resubscribe_filter(f, highest) == IF highest # None THEN [f EXCEPT !.from_block = highest] ELSE f

\* rpc.subscribe_logs(&filter).await: on Err, sleep and start over
poll_subscribe_logs ==
  /\ checker_pc = "subscribe"
  /\ Len(subscriptions) < MaxSubscriptions
  /\ filter' = resubscribe_filter(filter, highest_block)
  /\ subscriptions' = Append(subscriptions, filter')
  /\ checker_pc' = IF rpc_up THEN "stream" ELSE "connect"
  /\ UNCHANGED <<config, swarm_sending, services, interface_open, checker_chain_id, highest_block,
                 delivered, applied, run_state, store, swarm_commands, swarm_open, rpc_up,
                 pending, handled, channels>>

\* mutant: a log without a block number clears highest_block
next_highest_block_reset(highest, log) == log.block_number

\* mutant: highest_block keeps the highest block seen
next_highest_block_max(highest, log) ==
  IF log.block_number # None /\ (highest = None \/ log.block_number[1] > highest[1])
  THEN log.block_number
  ELSE highest

\* if let Some(block_number) = log.block_number { highest_block = Some(block_number) }
next_highest_block(highest, log) ==
  IF log.block_number # None THEN log.block_number ELSE highest

ResolveOnchainMint(claim) == [type |-> "ResolveOnchainMint", claim |-> claim]

\* mutant: a claim equal to the one sent last is not sent again
checker_send_once(chain, log, last) ==
  LET m == map_claim(chain, log)
  IN IF m.ok /\ (last = <<>> \/ last[1] # ResolveOnchainMint(m.claim))
     THEN <<ResolveOnchainMint(m.claim)>>
     ELSE <<>>

\* what the checker sends the Controller for a log: the claim, when map_claim is Ok
checker_send(chain, log, last) ==
  LET m == map_claim(chain, log)
  IN IF m.ok THEN <<ResolveOnchainMint(m.claim)>> ELSE <<>>

\* while let Some(log) = stream.next().await: map_claim, send_command, highest_block.
\* The send waits for room in the channel, and fails when the Controller is gone.
poll_stream_next ==
  /\ checker_pc = "stream"
  /\ Len(delivered) < MaxLogs
  /\ \E log \in StreamLogs :
       LET last == IF external_commands = <<>>
                   THEN <<>>
                   ELSE <<external_commands[Len(external_commands)]>>
           msgs == checker_send(checker_chain_id, log, last)
           closed == run_state # "running"
       IN /\ (msgs # <<>> /\ ~closed) => Len(external_commands) < QueueCap
          /\ external_commands' = IF closed THEN external_commands ELSE external_commands \o msgs
          /\ delivered' = Append(delivered,
                                 [log |-> log,
                                  sent |-> IF msgs = <<>> THEN "none"
                                           ELSE IF closed THEN "Err" ELSE "Ok"])
          /\ highest_block' = next_highest_block(highest_block, log)
  /\ UNCHANGED <<config, swarm_sending, services, interface_open, checker_pc, checker_chain_id, filter,
                 subscriptions, applied, run_state, store, swarm_commands, swarm_open,
                 rpc_up, pending, handled, swarm_events, received>>

\* stream.next() yields None: the subscription ended, the outer loop goes round
poll_stream_end ==
  /\ checker_pc = "stream"
  /\ checker_pc' = "connect"
  /\ UNCHANGED <<config, swarm_sending, services, interface_open, checker_chain_id, highest_block, filter,
                 delivered, subscriptions, applied, run_state, store, swarm_commands,
                 swarm_open, rpc_up, pending, handled, channels>>

\* the runtime drops the Controller's task at its select!: its receivers go with it
ControllerAbort ==
  /\ AtSelect
  /\ run_state' = "aborted"
  /\ external_commands' = <<>>
  /\ UNCHANGED <<config, tasks, applied, store, swarm_commands, swarm_open, rpc_up,
                 pending, handled, swarm_events, received>>

InitChecker ==
  /\ InitController
  /\ inclusion_mode \in {"Check", "Verify"}
  /\ rules = DefaultRules
  /\ trusted_peers = {}
  /\ services = "down"
  /\ checker_pc = "unspawned"
  /\ checker_chain_id \in CheckerChains
  /\ highest_block = None
  /\ filter = None
  /\ delivered = <<>>
  /\ subscriptions = <<>>
  /\ call = NoCall
  /\ result = None

NextChecker ==
  \/ start_services
  \/ MintChecker_new
  \/ poll_check_filter
  \/ poll_make_provider
  \/ poll_subscribe_logs
  \/ poll_stream_next
  \/ poll_stream_end
  \/ run_loop_command
  \/ run_loop_handle
  \/ Loop
  \/ SwarmRecv
  \/ RpcChange
  \/ ControllerAbort

SpecChecker == InitChecker /\ [][NextChecker]_vars

-----------------------------------------------------------------------------
(* Calls of the premint kind's functions and of inclusion_claim_correct *)

CollectionB == "0xbb"

PurePremints ==
  {ZoraPremintV2(c, a, u, v, s) :
     c \in {ZoraChain, BaseChain}, a \in {CollectionA, CollectionB}, u \in {1, 2, 11},
     v \in {1, 2}, s \in {"valid", "forged"}}

\* the premint of the same collection and uid on the other chain
PBase == ZoraPremintV2(BaseChain, CollectionA, 1, 1, "valid")

PureLogs == {LogTransfer, LogMint1, LogMint2, LogSpoof, LogPending}

\* claims as a MintChecker makes them, and claims a peer could send instead
PureClaims ==
  {ClaimMint1, ClaimMint2, ClaimNoTx, ClaimSpoof,
   [ClaimMint1 EXCEPT !.kind = "zora_premint_v1"],
   [ClaimMint1 EXCEPT !.chain_id = BaseChain],
   [ClaimMint1 EXCEPT !.premint_id = metadata(P2v1).id],
   [ClaimMint1 EXCEPT !.log_index = 0]}

Calls ==
  {[fn |-> "verify_claim", premint |-> p, chain_id |-> c, tx |-> tx, log |-> log, claim |-> cl] :
     p \in {P1v1, P2v1, ZoraPremintV2(ZoraChain, CollectionB, 1, 1, "valid")},
     c \in {ZoraChain, BaseChain}, tx \in Receipts(ZoraChain), log \in PureLogs,
     cl \in PureClaims}
  \cup {[fn |-> "metadata", premint |-> p] : p \in PurePremints}
  \cup {[fn |-> "map_claim", chain_id |-> c, log |-> log] :
          c \in {ZoraChain, BaseChain}, log \in PureLogs}
  \cup {[fn |-> "inclusion_claim_correct", premint |-> p, claim |-> cl, rpc |-> r] :
          p \in {P1v1, P1v2, P2v1, PBase}, cl \in PureClaims, r \in BOOLEAN}

apply_verify_claim ==
  /\ call.fn = "verify_claim"
  /\ result = None
  /\ result' = Some(verify_claim(call.premint, call.chain_id, call.tx, call.log, call.claim))
  /\ UNCHANGED <<config, tasks, call, run_state, store, swarm_commands, swarm_open, rpc_up,
                 pending, handled, channels>>

apply_metadata ==
  /\ call.fn = "metadata"
  /\ result = None
  /\ result' = Some(metadata(call.premint))
  /\ UNCHANGED <<config, tasks, call, run_state, store, swarm_commands, swarm_open, rpc_up,
                 pending, handled, channels>>

apply_map_claim ==
  /\ call.fn = "map_claim"
  /\ result = None
  /\ result' = Some(map_claim(call.chain_id, call.log))
  /\ UNCHANGED <<config, tasks, call, run_state, store, swarm_commands, swarm_open, rpc_up,
                 pending, handled, channels>>

apply_inclusion_claim_correct ==
  /\ call.fn = "inclusion_claim_correct"
  /\ result = None
  /\ result' = Some(inclusion_claim_correct(call.premint, call.claim, call.rpc))
  /\ UNCHANGED <<config, tasks, call, run_state, store, swarm_commands, swarm_open, rpc_up,
                 pending, handled, channels>>

InitPure ==
  /\ InitController
  /\ inclusion_mode = "Check"
  /\ rules = DefaultRules
  /\ trusted_peers = {}
  /\ services = "up"
  /\ checker_pc = "unspawned"
  /\ checker_chain_id = ZoraChain
  /\ highest_block = None
  /\ filter = None
  /\ delivered = <<>>
  /\ subscriptions = <<>>
  /\ call \in Calls
  /\ result = None

NextPure ==
  \/ apply_verify_claim
  \/ apply_metadata
  \/ apply_map_claim
  \/ apply_inclusion_claim_correct

SpecPure == InitPure /\ [][NextPure]_vars

-----------------------------------------------------------------------------
(* Properties *)

\* the step in which the handler of a message of this type runs
Handles(type) == pending.type = type /\ pending' = NoMsg

StoredPremint(claim) == get_for_id_and_kind(store, claim.premint_id, claim.kind)

\* C1: in Check or Verify mode, the handler of MintSeenOnchain(peer_claim) calls
\* mark_seen_on_chain or changes the seen-on-chain set only when the store holds the
\* claim's premint and inclusion_claim_correct of it and the claim is Ok(true), and
\* then it adds that claim alone; whether the peer is trusted plays no part.
C1_MarkOnlyVerified ==
  [][(/\ Handles("MintSeenOnchain")
      /\ inclusion_mode \in {"Check", "Verify"}
      /\ (handled'.marks > 0 \/ store'.seen_on_chain # store.seen_on_chain))
     => /\ StoredPremint(pending.claim) # None
        /\ inclusion_claim_correct(StoredPremint(pending.claim)[1], pending.claim, rpc_up)
             = "OkTrue"
        /\ store'.seen_on_chain = store.seen_on_chain \cup {pending.claim}]_vars

\* C1 witness: Verify mode has just marked the claim of a peer that is not trusted
C1_Witness ==
  /\ inclusion_mode = "Verify"
  /\ handled.msg.type = "MintSeenOnchain"
  /\ handled.msg.from_peer_id \notin trusted_peers
  /\ handled.marks = 1
  /\ handled.msg.claim \in store.seen_on_chain

\* C2: in Trust mode, the handler of MintSeenOnchain(peer_claim) marks the claim seen
\* exactly when from_peer_id is in trusted_peers; for any other peer the store and the
\* swarm-command channel stay as they were.
C2_TrustGating ==
  [][(Handles("MintSeenOnchain") /\ inclusion_mode = "Trust")
     => IF pending.from_peer_id \in trusted_peers
        THEN /\ handled'.marks = 1
             /\ store' = mark_seen_on_chain(store, pending.claim)
             /\ pending.claim \in store'.seen_on_chain
        ELSE /\ handled'.marks = 0
             /\ store' = store
             /\ swarm_commands' = swarm_commands]_vars

\* C2 witness: a claim of a peer outside trusted_peers was just ignored, in a node
\* that earlier marked a claim (of no transaction) on a trusted peer's word
C2_Witness ==
  /\ inclusion_mode = "Trust"
  /\ handled.msg.type = "MintSeenOnchain"
  /\ handled.msg.from_peer_id \notin trusted_peers
  /\ handled.msg.claim \notin store.seen_on_chain
  /\ handled.marks = 0
  /\ ClaimNoTx \in store.seen_on_chain

RulesAccept(p) ==
  LET evaluation == evaluate(rules, p, store, rpc_up)
  IN evaluation.ok /\ is_accept(evaluation.results)

\* C3: the handler of Broadcast sends once on the reply channel, whatever path it
\* takes: Ok(()) exactly when the rules accepted, the store took the premint and
\* SwarmCommand::Broadcast was enqueued; Err otherwise (rules error or reject, store
\* failure, swarm send failure).
C3_OneReply ==
  [][Handles("Broadcast")
     => /\ Len(handled'.replies) = 1
        /\ handled'.replies[1].ok
             <=> /\ RulesAccept(pending.message)
                 /\ PremintStorage_store(store, pending.message).ok
                 /\ swarm_commands' = Append(swarm_commands, SwarmBroadcast(pending.message))
        /\ ~handled'.replies[1].ok
             <=> \/ ~RulesAccept(pending.message)
                 \/ ~PremintStorage_store(store, pending.message).ok
                 \/ ~swarm_open]_vars

\* C3 witness: the rules accepted a premint the store refused, and the caller got Err
C3_Witness ==
  /\ handled.msg.type = "Broadcast"
  /\ handled.replies = <<ReplyErr("store_failed")>>

\* C4: when the rules do not accept a broadcast premint, or the store refuses it, the
\* reply is Err, no SwarmCommand is emitted and the store is unchanged.
C4_RejectedLeavesNoTrace ==
  [][(/\ Handles("Broadcast")
      /\ (\/ ~RulesAccept(pending.message)
          \/ ~PremintStorage_store(store, pending.message).ok))
     => /\ Len(handled'.replies) = 1
        /\ ~handled'.replies[1].ok
        /\ handled'.emitted = <<>>
        /\ swarm_commands' = swarm_commands
        /\ store' = store]_vars

\* C4 witness: version 1 was broadcast to a node that stores version 2, and refused
C4_Witness ==
  /\ handled.msg.type = "Broadcast"
  /\ handled.msg.message = P1v1
  /\ P1v2 \in store.premints
  /\ handled.replies # <<>>
  /\ ~handled.replies[1].ok
  /\ handled.emitted = <<>>

IsDone(e) == e.done

\* C5: run_loop handles the messages it takes one at a time (a message is taken only
\* when the handler of every message before it has run to its end), and the store is
\* at every moment the store that handling the messages sequentially, in the order
\* the Controller received them, gives.
C5_SequentialReplay ==
  /\ \A i \in 1..Len(received) :
       ~received[i].done => (i = Len(received) /\ pending = received[i].msg)
  /\ store = Replay(EmptyStore, SelectSeq(received, IsDone))

\* C5 witness: two senders' broadcasts of versions 2 and 1 were both in the channel
\* and were handled in that order; version 2 is stored, and a third message waits
C5_Witness ==
  /\ Len(received) = 2
  /\ received[1].done /\ received[2].done
  /\ received[1].msg.type = "Broadcast" /\ received[1].msg.message = P1v2
  /\ received[2].msg.type = "Broadcast" /\ received[2].msg.message = P1v1
  /\ store.premints = {P1v2}
  /\ external_commands # <<>>

\* C6: the handler of ResolveOnchainMint(claim) calls store.mark_seen_on_chain(claim)
\* once, and sends one SwarmCommand::SendOnchainMintFound(claim) when the mode is
\* Check (the channel takes it unless the Swarm dropped its receiver) and none when
\* the mode is Verify or Trust.
C6_ResolveMarksOnce ==
  [][Handles("ResolveOnchainMint")
     => /\ handled'.marks = 1
        /\ store' = mark_seen_on_chain(store, pending.claim)
        /\ IF inclusion_mode = "Check"
           THEN /\ handled'.send = <<SendOnchainMintFound(pending.claim)>>
                /\ swarm_commands' =
                     IF swarm_open
                     THEN Append(swarm_commands, SendOnchainMintFound(pending.claim))
                     ELSE swarm_commands
           ELSE /\ handled'.send = <<>>
                /\ swarm_commands' = swarm_commands]_vars

\* C6 witness: Check mode has marked a claim and enqueued its announcement
C6_Witness ==
  /\ inclusion_mode = "Check"
  /\ handled.msg.type = "ResolveOnchainMint"
  /\ handled.marks = 1
  /\ handled.msg.claim \in store.seen_on_chain
  /\ handled.emitted = <<SendOnchainMintFound(handled.msg.claim)>>
  /\ swarm_commands = <<SendOnchainMintFound(handled.msg.claim)>>

\* C7: handling a claim that is already in the seen-on-chain set (ResolveOnchainMint
\* again, or an accepted peer claim again) leaves the store as it was, and no step
\* removes a claim from the seen-on-chain set.
C7_RemarkIsNoOp ==
  [][/\ store.seen_on_chain \subseteq store'.seen_on_chain
     /\ ((Handles("ResolveOnchainMint") \/ Handles("MintSeenOnchain"))
          /\ pending.claim \in store.seen_on_chain)
        => store' = store]_vars

\* C7 witness: ResolveOnchainMint came again for a claim already marked
C7_Witness ==
  /\ handled.msg.type = "ResolveOnchainMint"
  /\ handled.msg.claim \in handled.before.seen_on_chain
  /\ handled.marks = 1
  /\ store = handled.before
  /\ Cardinality(store.seen_on_chain) = 2

Ids == {metadata(p).id : p \in Premints}

\* Unknown (0), Stored (1), SeenOnChain (2)
PremintState(st, id) ==
  IF \E c \in st.seen_on_chain : c.premint_id = id /\ c.kind = "zora_premint_v2"
  THEN 2
  ELSE IF \E p \in st.premints : metadata(p).id = id THEN 1 ELSE 0

\* C8 as claimed: a premint's state moves only forward along Unknown, Stored,
\* SeenOnChain, and it becomes SeenOnChain only from Stored.
C8_Original ==
  [][\A id \in Ids :
       /\ PremintState(store', id) >= PremintState(store, id)
       /\ (PremintState(store', id) = 2 /\ PremintState(store, id) # 2)
            => PremintState(store, id) = 1]_vars

\* C8 amended: no step moves a premint's state back (a stored (kind, id) stays stored,
\* a claim marked seen stays marked), and a peer's claim in Check or Verify mode marks
\* only a stored premint; ResolveOnchainMint, and a trusted peer's claim in Trust
\* mode, mark a claim whether or not its premint was ever stored.
C8_ForwardOnly ==
  [][store' # store => \A id \in Ids :
       /\ PremintState(store', id) >= PremintState(store, id)
       /\ store.seen_on_chain \subseteq store'.seen_on_chain
       /\ (\E p \in store.premints : metadata(p).id = id)
            => (\E p \in store'.premints : metadata(p).id = id)
       /\ (/\ Handles("MintSeenOnchain")
           /\ inclusion_mode \in {"Check", "Verify"}
           /\ PremintState(store', id) = 2
           /\ PremintState(store, id) # 2)
            => PremintState(store, id) = 1]_vars

\* C8 witness: ResolveOnchainMint marked a claim of a premint the store never held
C8_Witness ==
  /\ handled.msg.type = "ResolveOnchainMint"
  /\ handled.before = EmptyStore
  /\ store.premints = {}
  /\ PremintState(store, handled.msg.claim.premint_id) = 2

\* the transaction receipt the claim names, as inclusion_claim_correct fetches it
ClaimReceipt(claim) == get_transaction_receipt(claim.chain_id, claim.tx_hash)

NotProven(claim) ==
  \/ StoredPremint(claim) = None
  \/ ClaimReceipt(claim) = None
  \/ claim.log_index >= Len(ClaimReceipt(claim)[1].logs)

\* C9: in Check or Verify mode, the handler of a peer claim whose premint is not in
\* the store, whose receipt the chain does not hold, or whose log_index is past the
\* receipt's logs marks nothing and sends no SwarmCommand, and run_loop is back at
\* its select! for the next message.
C9_UnprovenIgnored ==
  [][(/\ Handles("MintSeenOnchain")
      /\ inclusion_mode \in {"Check", "Verify"}
      /\ NotProven(pending.claim))
     => /\ handled'.marks = 0
        /\ store' = store
        /\ handled'.send = <<>>
        /\ swarm_commands' = swarm_commands
        /\ pending' = NoMsg]_vars

\* C9 witness: Check mode ignored the claim of 0xt2's log, whose index 5 is past the
\* one log of the receipt, though the premint is stored and the chain reachable
C9_Witness ==
  /\ inclusion_mode = "Check"
  /\ handled.msg.type = "MintSeenOnchain"
  /\ handled.msg.claim = ClaimMint2
  /\ StoredPremint(ClaimMint2) # None
  /\ rpc_up
  /\ handled.marks = 0
  /\ store = handled.before
  /\ pending = NoMsg

\* C10: the handler of PremintReceived(p) stores p when p passes the default rules
\* (when it passes the installed rules and the store takes it), and, accepted or
\* not, sends no SwarmCommand and nothing on any reply channel.
C10_GossipIntake ==
  [][Handles("PremintReceived")
     => /\ (RulesAccept(pending.premint)
             /\ ("version_is_higher" \in rules \/ PremintStorage_store(store, pending.premint).ok))
           => pending.premint \in store'.premints
        /\ ~RulesAccept(pending.premint) => store' = store
        /\ handled'.send = <<>>
        /\ swarm_commands' = swarm_commands
        /\ handled'.replies = <<>>]_vars

\* C10 witness: a received premint was stored over its older version, silently
C10_Witness ==
  /\ handled.msg.type = "PremintReceived"
  /\ handled.msg.premint = P1v2
  /\ P1v1 \in handled.before.premints
  /\ store.premints = {P1v2}
  /\ handled.emitted = <<>>
  /\ handled.replies = <<>>

-----------------------------------------------------------------------------
(* Properties of the run loop's error handling and of the frame of each command *)

ReplyDropped(m) == m.type \in {"Broadcast", "Query"} /\ m.rx = "dropped"

\* C11: when the receiver of the reply channel of a Broadcast or a Query is gone, the
\* handler's failed send is logged only: run_loop keeps running and is back at its
\* select! for the messages that follow, and what validate_and_insert put in the
\* store stays there; run_loop stops only when both of its channels are closed and
\* drained.
C11_ReplyFailureLogged ==
  /\ [](run_state # "running" => AllDisabled)
  /\ [][(ReplyDropped(pending) /\ pending' = NoMsg)
        => /\ run_state' = "running"
           /\ Len(handled'.replies) = 1
           /\ store' = IF pending.type = "Broadcast"
                       THEN validate_and_insert(store, pending.message, Ctx).store
                       ELSE store]_vars

\* C11 witness: a broadcast whose caller had gone stored its premint, its handler
\* returned an Err, and the query that followed it was handled
C11_Witness ==
  /\ Len(received) = 2
  /\ received[1].msg = [type |-> "Broadcast", message |-> P1v1, rx |-> "dropped"]
  /\ received[1].done
  /\ received[2].msg.type = "Query"
  /\ received[2].done
  /\ handled.msg = received[2].msg
  /\ store.premints = {P1v1}
  /\ run_state = "running"

\* C12 as claimed: run_loop ends only by returning, and returns only when both the
\* external-command and the swarm-event channel are closed and drained.
C12_Original ==
  /\ run_state \in {"running", "returned"}
  /\ run_state = "returned" => AllDisabled

\* C19: ConnectToPeer, AnnounceSelf, ReturnNetworkState and ReturnNodeInfo each send
\* the one SwarmCommand of the same name, with the caller's reply channel in it, reply
\* nothing and leave the store as it was; NetworkState and Query leave the store as it
\* was and send no SwarmCommand; SwarmCommand::Broadcast is sent only by the handler
\* of a Broadcast command.
C19_Frames ==
  [][/\ (pending.type \in {"ConnectToPeer", "AnnounceSelf"} /\ pending' = NoMsg)
        => /\ handled'.send = <<[type |-> pending.type]>>
           /\ handled'.emitted = IF swarm_open THEN handled'.send ELSE <<>>
           /\ swarm_commands' = swarm_commands \o handled'.emitted
           /\ handled'.replies = <<>>
           /\ store' = store
     /\ (pending.type \in {"ReturnNetworkState", "ReturnNodeInfo"} /\ pending' = NoMsg)
        => /\ handled'.send = <<[type |-> pending.type, channel |-> pending.channel]>>
           /\ handled'.emitted = IF swarm_open THEN handled'.send ELSE <<>>
           /\ swarm_commands' = swarm_commands \o handled'.emitted
           /\ handled'.replies = <<>>
           /\ store' = store
     /\ (pending.type \in {"NetworkState", "Query"} /\ pending' = NoMsg)
        => /\ handled'.send = <<>>
           /\ swarm_commands' = swarm_commands
           /\ store' = store
     /\ (/\ Len(swarm_commands') > Len(swarm_commands)
         /\ swarm_commands'[Len(swarm_commands')].type = "Broadcast")
        => pending.type = "Broadcast"]_vars

\* C19 witness: ReturnNodeInfo of the second caller went to the Swarm with that
\* caller's channel, in a node that holds a premint
C19_Witness ==
  /\ handled.msg.type = "ReturnNodeInfo"
  /\ handled.msg.channel = "caller2"
  /\ swarm_commands = <<[type |-> "ReturnNodeInfo", channel |-> "caller2"]>>
  /\ handled.replies = <<>>
  /\ store.premints # {}
  /\ store = handled.before

-----------------------------------------------------------------------------
(* Properties of the MintChecker and of start_services *)

InPollLoop(pc) == pc \in {"connect", "subscribe", "stream"}

\* C13: poll_for_new_mints returns only when check_filter(chain_id) is None, and then
\* straight from its start, before a provider is made or a subscription asked for; on
\* a supported chain it never returns: from the connect, subscribe and stream steps
\* it only ever goes to one of these again, whatever fails.
C13_OnlyUnsupportedReturns ==
  /\ [](checker_pc = "returned"
         => /\ check_filter(checker_chain_id) = None
            /\ filter = None /\ subscriptions = <<>> /\ delivered = <<>>)
  /\ [][/\ (checker_pc' = "returned" /\ checker_pc # "returned") => checker_pc = "start"
        /\ InPollLoop(checker_pc) => InPollLoop(checker_pc')]_vars

\* C13 witness: on a supported chain the checker subscribed, a subscription ended, a
\* log did not map to a claim and a send to the Controller failed; it streams again
C13_Witness ==
  /\ checker_chain_id = ZoraChain
  /\ checker_pc = "stream"
  /\ Len(subscriptions) = 2
  /\ \E i \in 1..Len(delivered) : delivered[i].sent = "none"
  /\ \E i \in 1..Len(delivered) : delivered[i].sent = "Err"

HasBlock(d) == d.log.block_number # None

\* the block number of the last log delivered that has one
LastObserved ==
  LET seen == SelectSeq(delivered, HasBlock)
  IN IF seen = <<>> THEN None ELSE seen[Len(seen)].log.block_number

\* C14: every subscription is asked for with the filter of check_filter, its
\* from_block set to the block number of the last log observed that had one, and
\* left as check_filter gave it when no such log was observed yet.
C14_ResubscribeFromLast ==
  [][subscriptions' # subscriptions
     => subscriptions'[Len(subscriptions')] =
          [check_filter(checker_chain_id)[1] EXCEPT
             !.from_block = IF LastObserved = None THEN @ ELSE LastObserved]]_vars

\* C14 witness: the logs of block 11, of block 10 and a pending log were observed
\* in that order, and the checker subscribed again from block 10
C14_Witness ==
  /\ Len(delivered) = 3
  /\ delivered[1].log = LogMint2
  /\ delivered[2].log = LogMint1
  /\ delivered[3].log = LogPending
  /\ Len(subscriptions) = 2
  /\ subscriptions[1].from_block = None
  /\ subscriptions[2].from_block = Some(10)

SentOk(d) == d.sent = "Ok"

\* the commands the checker's sends put in the channel, in the order of their logs
CheckerSent ==
  LET ok == SelectSeq(delivered, SentOk)
  IN [i \in 1..Len(ok) |-> ResolveOnchainMint(map_claim(checker_chain_id, ok[i].log).claim)]

\* the messages run_loop took, in the order it took them
ControllerTook == [i \in 1..Len(received) |-> received[i].msg]

\* C15: for each log its subscription yields, the checker sends one
\* ResolveOnchainMint(map_claim(log)) when map_claim is Ok and nothing when it is
\* not, and the Controller takes the checker's claims in the order of their logs.
C15_OneClaimPerLog ==
  /\ [](LET sent == CheckerSent
             took == ControllerTook
         IN /\ Len(took) <= Len(sent)
            /\ \A i \in 1..Len(took) : took[i] = sent[i]
            /\ run_state = "running"
               => /\ Len(took) + Len(external_commands) = Len(sent)
                  /\ \A j \in 1..Len(external_commands) :
                       external_commands[j] = sent[Len(took) + j])
  /\ [][delivered' # delivered
        => LET d == delivered'[Len(delivered')]
               m == map_claim(checker_chain_id, d.log)
           IN /\ d.sent = "none" <=> ~m.ok
              /\ external_commands' =
                   IF m.ok /\ run_state = "running"
                   THEN Append(external_commands, ResolveOnchainMint(m.claim))
                   ELSE external_commands]_vars

\* C15 witness: the stream yielded the log of 0xt2, a Transfer log and the log of
\* 0xt1; the Controller took the claim of 0xt2 and then the claim of 0xt1
C15_Witness ==
  /\ Len(delivered) = 3
  /\ delivered[1].log = LogMint2
  /\ delivered[2].log = LogTransfer /\ delivered[2].sent = "none"
  /\ delivered[3].log = LogMint1
  /\ ControllerTook = <<ResolveOnchainMint(ClaimMint2), ResolveOnchainMint(ClaimMint1)>>
  /\ received[2].done

\* C16 as claimed: start_services spawns the MintChecker of a supported chain when
\* the mode is Check, and spawns none when the mode is Verify or Trust.
C16_Original ==
  [][(services = "down" /\ services' = "up" /\ checker_chain_id \in SupportedChains)
     => (checker_pc' # "unspawned" <=> inclusion_mode = "Check")]_vars

-----------------------------------------------------------------------------
(* Properties of the premint kind's functions *)

Returned(fn) == call.fn = fn /\ result # None

\* C17: verify_claim is true exactly when the log decodes as a PremintedV2 event and
\* the log's address is the factory, the log's and the claim's transaction hash are
\* the receipt's, the claim's log_index is the log's, the claim's premint_id is the
\* GUID of (chain_id, event.contractAddress, event.uid), its kind is zora_premint_v2,
\* its chain_id is chain_id, and the premint's collection_address and uid are the
\* event's; one mismatch makes it false.
C17_VerifyClaimIff ==
  Returned("verify_claim")
  => (result[1]
      <=> /\ call.log.topic0 = "PremintedV2"
          /\ call.log.address = PREMINT_FACTORY_ADDR
          /\ call.log.transaction_hash = Some(call.tx.transaction_hash)
          /\ call.claim.tx_hash = call.tx.transaction_hash
          /\ Some(call.claim.log_index) = call.log.log_index
          /\ call.claim.premint_id =
               FormatDebug(call.chain_id) \o <<":", call.log.data.contractAddress, ":">>
                 \o FormatDebug(call.log.data.uid)
          /\ call.claim.kind = "zora_premint_v2"
          /\ call.claim.chain_id = call.chain_id
          /\ call.premint.collection_address = call.log.data.contractAddress
          /\ call.premint.uid = call.log.data.uid)

\* C17 witness: the claim of the factory's log of 0xt1, with another kind's name and
\* nothing else amiss, was found false
C17_Witness ==
  /\ Returned("verify_claim")
  /\ call.premint = P1v1
  /\ call.chain_id = ZoraChain
  /\ call.tx.transaction_hash = "0xt1"
  /\ call.log = LogMint1
  /\ call.claim = [ClaimMint1 EXCEPT !.kind = "zora_premint_v1"]
  /\ verify_claim(P1v1, ZoraChain, call.tx, LogMint1, ClaimMint1)
  /\ result = Some(FALSE)

SameKey(p, q) ==
  /\ p.chain_id = q.chain_id
  /\ p.collection_address = q.collection_address
  /\ p.uid = q.uid

\* C18: metadata().id is the same for two premints exactly when they have the same
\* chain_id, collection_address and uid, whatever their version and signature, and
\* the premint_id map_claim makes of an event on a chain is the id of every premint
\* of that chain with the event's contractAddress and uid.
C18_IdOfKey ==
  /\ Returned("metadata")
     => \A q \in PurePremints : metadata(q).id = result[1].id <=> SameKey(q, call.premint)
  /\ (Returned("map_claim") /\ result[1].ok)
     => \A q \in PurePremints :
          (/\ q.chain_id = call.chain_id
           /\ q.collection_address = call.log.data.contractAddress
           /\ q.uid = call.log.data.uid)
          => metadata(q).id = result[1].claim.premint_id

\* C18 witness: map_claim of the log of 0xt1 made the id that version 1 and the
\* forged version 3 of the premint share
C18_Witness ==
  /\ Returned("map_claim")
  /\ call.chain_id = ZoraChain
  /\ call.log = LogMint1
  /\ result[1].ok
  /\ result[1].claim.premint_id = metadata(P1v1).id
  /\ metadata(P1v1).id = metadata(PForged).id
  /\ metadata(P1v1).id # metadata(P2v1).id

\* the claim is map_claim of a factory log of the premint that a receipt of the chain holds
Honest(p, claim) ==
  \E r \in Receipts(claim.chain_id) : \E i \in 1..Len(r.logs) :
    /\ r.logs[i].address = PREMINT_FACTORY_ADDR
    /\ decode_raw_log(r.logs[i]).ok
    /\ r.logs[i].data.contractAddress = p.collection_address
    /\ r.logs[i].data.uid = p.uid
    /\ map_claim(p.chain_id, r.logs[i]).claim = claim

\* C20 as claimed: the claim map_claim makes of a genuine factory log of the premint,
\* wherever the log is in its receipt and in its block, is found Ok(true) by
\* inclusion_claim_correct when the chain can be reached.
C20_Original ==
  (Returned("inclusion_claim_correct") /\ call.rpc /\ Honest(call.premint, call.claim))
  => result[1] = "OkTrue"

\* C21 as claimed: a claim that inclusion_claim_correct finds Ok(true) for a premint
\* names that premint's id and that premint's chain.
C21_Original ==
  (Returned("inclusion_claim_correct") /\ result[1] = "OkTrue")
  => /\ call.claim.premint_id = metadata(call.premint).id
     /\ call.claim.chain_id = call.premint.chain_id

-----------------------------------------------------------------------------
(* Properties of highest_block *)

ObservedBlocks == {delivered[i].log.block_number[1] : i \in {j \in 1..Len(delivered) : HasBlock(delivered[j])}}

\* the highest block number among the logs observed
MaxObserved ==
  IF ObservedBlocks = {}
  THEN None
  ELSE Some(CHOOSE b \in ObservedBlocks : \A c \in ObservedBlocks : c <= b)

\* C22 as claimed: highest_block never decreases and is the highest block number
\* among the logs observed so far.
C22_Original ==
  /\ [](highest_block = MaxObserved)
  /\ [][(highest_block # None /\ highest_block' # None)
        => highest_block'[1] >= highest_block[1]]_vars

\* C22 amended: highest_block is the block number of the last log observed that had
\* one: a log without a block number, a reconnect and a resubscribe leave it
\* unchanged, once set it is never unset, and it is the highest block observed as
\* long as the logs came in non-decreasing block order.
C22_LastObservedBlock ==
  /\ [](/\ highest_block = LastObserved
         /\ (\A i, j \in 1..Len(delivered) :
               (i < j /\ HasBlock(delivered[i]) /\ HasBlock(delivered[j]))
               => delivered[i].log.block_number[1] <= delivered[j].log.block_number[1])
            => highest_block = MaxObserved)
  /\ [][/\ highest_block # None => highest_block' # None
        /\ delivered' = delivered => highest_block' = highest_block
        /\ (delivered' # delivered /\ ~HasBlock(delivered'[Len(delivered')]))
           => highest_block' = highest_block]_vars

\* C22 witness: after the log of block 11, the log of block 10 and a pending log,
\* and a resubscribe, highest_block is 10
C22_Witness ==
  /\ Len(delivered) = 3
  /\ delivered[1].log = LogMint2
  /\ delivered[2].log = LogMint1
  /\ delivered[3].log = LogPending
  /\ highest_block = Some(10)
  /\ MaxObserved = Some(11)
  /\ Len(subscriptions) = 2
  /\ checker_pc = "stream"

-----------------------------------------------------------------------------
(* Properties of a refused Broadcast *)

\* C24 as claimed: when the Controller replies Err to a Broadcast, the store is as it
\* was before the command was handled, also when what failed is the send to the Swarm.
C24_Original ==
  [][(/\ Handles("Broadcast")
      /\ handled'.replies # <<>>
      /\ ~handled'.replies[1].ok)
     => store' = store]_vars

-----------------------------------------------------------------------------
(* The Controller task and the Swarm task over their two bounded channels.  The Swarm
   is one cooperative task: it takes a command from swarm_commands, or it obtains an
   event from the network and sends it on swarm_events, waiting while that channel is
   full; while it waits it takes no command. *)

SwarmTaskCommands ==
  {[type |-> "AnnounceSelf"], [type |-> "Broadcast", message |-> P1v1, rx |-> "open"]}

SwarmTaskEvents ==
  {[type |-> "NetworkState"], [type |-> "PremintReceived", premint |-> P1v2]}

\* the messages sent so far by the callers and by the Swarm
Traffic == Sent + (IF swarm_sending = NoMsg THEN 0 ELSE 1)

\* ControllerInterface::send_command by a caller of the node
caller_send_command ==
  /\ Traffic < MaxTraffic
  /\ interface_open
  /\ Len(external_commands) < QueueCap
  /\ \E cmd \in SwarmTaskCommands : external_commands' = Append(external_commands, cmd)
  /\ UNCHANGED <<config, tasks, applied, run_state, store, swarm_commands, swarm_open,
                 rpc_up, pending, handled, swarm_events, received>>

\* the Swarm obtains an event from the network and starts to send it
swarm_network_event ==
  /\ Traffic < MaxTraffic
  /\ swarm_open
  /\ swarm_sending = NoMsg
  /\ \E ev \in SwarmTaskEvents : swarm_sending' = ev
  /\ UNCHANGED <<config, services, interface_open, checker, applied, run_state, store,
                 swarm_commands, swarm_open, rpc_up, pending, handled, channels>>

\* the Swarm waits in its send: the event channel is full
SwarmBlocked == swarm_sending # NoMsg /\ Len(swarm_events) >= QueueCap

\* the Swarm's send completes once the event channel has room
swarm_event_send ==
  /\ swarm_sending # NoMsg
  /\ ~SwarmBlocked
  /\ swarm_events' = Append(swarm_events, swarm_sending)
  /\ swarm_sending' = NoMsg
  /\ UNCHANGED <<config, services, interface_open, checker, applied, run_state, store,
                 swarm_commands, swarm_open, rpc_up, pending, handled, external_commands,
                 received>>

\* the Swarm, not in a send, takes the next command
swarm_command_recv == swarm_sending = NoMsg /\ SwarmRecv

InitSwarm == Init /\ inclusion_mode = "Verify" /\ trusted_peers = {} /\ rules = DefaultRules

NextSwarm ==
  \/ caller_send_command
  \/ swarm_network_event
  \/ swarm_event_send
  \/ swarm_command_recv
  \/ run_loop_command
  \/ run_loop_event
  \/ run_loop_handle
  \/ Loop

SpecSwarm == InitSwarm /\ [][NextSwarm]_vars

\* the Controller waits in a handler's send: the swarm-command channel is full
ControllerBlocked == pending # NoMsg /\ WouldBlock(pending)

\* C23 as claimed: no reachable state has the Controller waiting to send on the full
\* swarm-command channel while the Swarm waits to send on the full event channel.
C23_Original == ~(ControllerBlocked /\ SwarmBlocked)

====
